---- MODULE Spec2Model ----
(***************************************************************************)
(* Model of the "eventual" CRUD service: the users and tasks tables        *)
(* (app/models/classes.py), the HTTP handlers of app/routers/users.py and  *)
(* app/routers/tasks.py, and the self-test endpoint GET /test of           *)
(* app/main.py with the check classes of app/tests.py.                     *)
(*                                                                         *)
(* Every handler runs in a database session of its own, so handlers and    *)
(* the checks of a self-test run interleave at commit granularity.         *)
(***************************************************************************)
EXTENDS Integers, Sequences, FiniteSets, TLC

(***************************************************************************)
(* Bounds of the model.                                                    *)
(***************************************************************************)
\* uuid4 primary keys are drawn fresh; the model numbers them 1, 2, ...
MaxUid == 3
MaxTid == 2
\* create_user requests that passed the email check and have not committed
MaxPending == 2
\* requests of other clients answered while one self-test run is under way
MaxOthers == 1
\* longest result list the summary block of run_tests is applied to
MaxResults == 4

(***************************************************************************)
(* Values.                                                                 *)
(***************************************************************************)
NULL == "NULL"      \* SQL NULL / Python None in a string column
NoId == 0           \* context.get(...) is None

TestName == "Test User"
UpdatedName == "Updated Test User"
TestEmail == "test@example.com"
OtherEmail == "a@example.com"
ThirdEmail == "b@example.com"
TestPhone == "555-TEST"
TestTitle == "Test Task"
OtherTitle == "t1"
TestKey == "TEST-001"
OtherKey == "k1"
SomeDate == "d1"

VARIABLES
    users,          \* table users: id -> [name, email, phone_number]
    tasks,          \* table tasks: id -> [title, user_id, status, due_date, idm_key]
    nextUid,        \* next fresh users.id
    nextTid,        \* next fresh tasks.id
    pending,        \* create_user requests between their email check and commit
    last,           \* the last request answered and its response
    pc,             \* position of the self-test run: 0 idle, i the i-th check is next
    context,        \* run_tests' shared dict: [test_user_id, test_task_id]
    results,        \* run_tests' list of check results
    broken,         \* the run's session needs a rollback after a failed statement
    start,          \* the tables when the run began
    others          \* requests of other clients answered since the run began

vars == <<users, tasks, nextUid, nextTid, pending, last, pc, context, results,
          broken, start, others>>

store == <<users, tasks, nextUid, nextTid>>
harness == <<pc, context, results, broken>>

(***************************************************************************)
(* The tables and their constraints (app/models/classes.py).               *)
(***************************************************************************)
User(name, email, phone_number) ==
    [name |-> name, email |-> email, phone_number |-> phone_number]

Task(title, user_id, status, due_date, idm_key) ==
    [title |-> title, user_id |-> user_id, status |-> status,
     due_date |-> due_date, idm_key |-> idm_key]

EmptyTable == [i \in {} |-> NULL]

Insert(table, id, row) == table @@ (id :> row)

\* a delete that is never flushed
Delete_no_flush(table, id) == table

Delete(table, id) == [i \in DOMAIN table \ {id} |-> table[i]]

\* users.email unique, users.phone_number unique (NULLs do not collide),
\* name and email NOT NULL
UsersOk(us) ==
    /\ \A u \in DOMAIN us : us[u].name # NULL /\ us[u].email # NULL
    /\ \A u, v \in DOMAIN us :
          u # v => /\ us[u].email # us[v].email
                   /\ \/ us[u].phone_number = NULL
                      \/ us[u].phone_number # us[v].phone_number

\* tasks.idm_key unique (NULLs do not collide), title NOT NULL,
\* user_id NOT NULL and a foreign key to users.id
TasksOk(us, ts) ==
    /\ \A t \in DOMAIN ts :
          /\ ts[t].title # NULL
          /\ ts[t].user_id \in DOMAIN us
    /\ \A s, t \in DOMAIN ts :
          s # t => \/ ts[s].idm_key = NULL
                   \/ ts[s].idm_key # ts[t].idm_key

\* db.query(User).filter(User.email == email).first()
UserByEmail(us, email) == {u \in DOMAIN us : us[u].email = email}

\* db.query(Task).filter(Task.idm_key == key).first()
TaskByKey(ts, key) == {t \in DOMAIN ts : ts[t].idm_key = key}

\* the tasks relationship of a user
TasksOf(ts, uid) == {t \in DOMAIN ts : ts[t].user_id = uid}

Response(op, req, status, detail, body) ==
    [op |-> op, req |-> req, status |-> status, detail |-> detail, body |-> body]

NoStart == <<EmptyTable, EmptyTable>>

\* a request of another client, answered while no self-test run is under way
\* or as one of the MaxOthers requests that fall into a run
Other ==
    IF pc = 0
      THEN UNCHANGED <<others, start>>
      ELSE /\ others < MaxOthers
           /\ others' = others + 1
           /\ start' = NoStart

(***************************************************************************)
(* app/routers/users.py                                                    *)
(***************************************************************************)
\* the filter compares the wrong column
existing_user_by_name(us, email) == {u \in DOMAIN us : us[u].name = email} # {}

\* existing_user = db.query(User).filter(User.email == user.email).first()
existing_user(us, email) == UserByEmail(us, email) # {}

\* create_user up to the email check: answered 400, or on its way to the commit
create_user(user) ==
    /\ IF existing_user(users, user.email)
         THEN /\ last' = Response("create_user", user, 400, "Email already registered", NoId)
              /\ UNCHANGED pending
         ELSE /\ Len(pending) < MaxPending
              /\ nextUid <= MaxUid
              /\ pending' = Append(pending, user)
              /\ last' = Response("create_user", user, 0, "", NoId)
    /\ Other
    /\ UNCHANGED <<store, harness>>

\* create_user from db.add to the return: the commit's INSERT is checked by
\* the unique constraints of the table
create_user_commit ==
    /\ pending # <<>>
    /\ pending' = Tail(pending)
    /\ LET user == Head(pending)
           after == Insert(users, nextUid, user)
       IN  IF UsersOk(after)
             THEN /\ nextUid <= MaxUid
                  /\ users' = after
                  /\ nextUid' = nextUid + 1
                  /\ last' = Response("create_user_commit", user, 201, "", nextUid)
             ELSE /\ last' = Response("create_user_commit", user, 500, "IntegrityError", NoId)
                  /\ UNCHANGED <<users, nextUid>>
    /\ Other
    /\ UNCHANGED <<tasks, nextTid, harness>>

\* read_user: GET /users/{id}
read_user(us, user_id) ==
    IF user_id \notin DOMAIN us
      THEN Response("read_user", user_id, 404, "User not found", NoId)
      ELSE Response("read_user", user_id, 200, "", us[user_id])

\* for key, value in update_data.items(): setattr(db_user, key, value)
update_user_data(row, body) ==
    [f \in DOMAIN row |-> IF f \in body.set THEN body[f] ELSE row[f]]

update_user(user_id, user) ==
    /\ LET req == [id |-> user_id, body |-> user]
           after == [users EXCEPT ![user_id] = update_user_data(@, user)]
       IN  IF user_id \notin DOMAIN users
             THEN /\ last' = Response("update_user", req, 404, "User not found", NoId)
                  /\ UNCHANGED users
             ELSE IF UsersOk(after)
               THEN /\ users' = after
                    /\ last' = Response("update_user", req, 200, "", user_id)
               ELSE /\ last' = Response("update_user", req, 500, "IntegrityError", NoId)
                    /\ UNCHANGED users
    /\ Other
    /\ UNCHANGED <<tasks, nextUid, nextTid, pending, harness>>

\* a delete that leaves the tasks of the user as they are
delete_user_commit_orphans(ts, user_id) == TRUE

\* db.delete(db_user); db.commit(): the tasks relationship has no delete
\* cascade, so the flush sets user_id of each task of the user to NULL, which
\* the NOT NULL column refuses
delete_user_commit(ts, user_id) == TasksOf(ts, user_id) = {}

delete_user(user_id) ==
    /\ IF user_id \notin DOMAIN users
         THEN /\ last' = Response("delete_user", user_id, 404, "User not found", NoId)
              /\ UNCHANGED users
         ELSE IF delete_user_commit(tasks, user_id)
           THEN /\ users' = Delete(users, user_id)
                /\ last' = Response("delete_user", user_id, 204, "", NoId)
           ELSE /\ last' = Response("delete_user", user_id, 500, "IntegrityError", NoId)
                /\ UNCHANGED users
    /\ Other
    /\ UNCHANGED <<tasks, nextUid, nextTid, pending, harness>>

(***************************************************************************)
(* app/routers/tasks.py                                                    *)
(***************************************************************************)
\* the TaskCreate schema has the fields title, status, due_date and user_id;
\* pydantic drops every other key of the JSON body
TaskCreate(json) ==
    [f \in {"title", "status", "due_date", "user_id"} |-> json[f]]

\* the query without its filter: any stored user will do
task_user_unfiltered(us, user_id) == DOMAIN us # {}

\* user = db.query(User).filter(User.id == task.user_id).first()
task_user(us, user_id) == user_id \in DOMAIN us

create_task(json) ==
    /\ LET task == TaskCreate(json)
       IN  IF ~task_user(users, task.user_id)
             THEN /\ last' = Response("create_task", json, 404, "User not found", NoId)
                  /\ UNCHANGED <<tasks, nextTid>>
             \* if task.idm_key: the schema has no such attribute
             ELSE IF "idm_key" \notin DOMAIN task
               THEN /\ last' = Response("create_task", json, 500, "AttributeError", NoId)
                    /\ UNCHANGED <<tasks, nextTid>>
               ELSE IF task.idm_key # NULL /\ TaskByKey(tasks, task.idm_key) # {}
                 THEN /\ last' = Response("create_task", json, 201, "",
                                          CHOOSE t \in TaskByKey(tasks, task.idm_key) : TRUE)
                      /\ UNCHANGED <<tasks, nextTid>>
                 ELSE /\ nextTid <= MaxTid
                      /\ tasks' = Insert(tasks, nextTid,
                                         Task(task.title, task.user_id, task.status,
                                              task.due_date, task.idm_key))
                      /\ nextTid' = nextTid + 1
                      /\ last' = Response("create_task", json, 201, "", nextTid)
    /\ Other
    /\ UNCHANGED <<users, nextUid, pending, harness>>

\* .offset(skip).limit(limit): the number of rows that come back
Page(n, skip, limit) ==
    LET left == IF n > skip THEN n - skip ELSE 0
    IN  IF left < limit THEN left ELSE limit

\* db.query(Task): the rows read_tasks selects from. The handler declares
\* skip and limit only; a user_id in the query string is no parameter of it
read_tasks_query(ts, user_id) == DOMAIN ts

\* the query has no ORDER BY: any `limit` of the rows may come back
read_tasks(skip, limit, user_id) ==
    /\ \E rows \in SUBSET read_tasks_query(tasks, user_id) :
          /\ Cardinality(rows) =
                Page(Cardinality(read_tasks_query(tasks, user_id)), skip, limit)
          /\ last' = Response("read_tasks",
                              [skip |-> skip, limit |-> limit, user_id |-> user_id],
                              200, "", rows)
    /\ Other
    /\ UNCHANGED <<store, pending, harness>>

\* read_task: GET /tasks/{id}
read_task(ts, task_id) ==
    IF task_id \notin DOMAIN ts
      THEN Response("read_task", task_id, 404, "Task not found", NoId)
      ELSE Response("read_task", task_id, 200, "", ts[task_id])

\* model_dump() without exclude_unset: every field of the schema
update_data_all_fields(body) == {"title", "status", "due_date"}

\* update_data = task.model_dump(exclude_unset=True): the fields the body gives
update_data(body) == body.set

\* for key, value in update_data.items(): setattr(db_task, key, value)
update_task_data(row, body) ==
    [f \in DOMAIN row |-> IF f \in update_data(body) THEN body[f] ELSE row[f]]

update_task(task_id, task) ==
    /\ LET req == [id |-> task_id, body |-> task]
           after == [tasks EXCEPT ![task_id] = update_task_data(@, task)]
       IN  IF task_id \notin DOMAIN tasks
             THEN /\ last' = Response("update_task", req, 404, "Task not found", NoId)
                  /\ UNCHANGED tasks
             ELSE IF TasksOk(users, after)
               THEN /\ tasks' = after
                    /\ last' = Response("update_task", req, 200, "", task_id)
               ELSE /\ last' = Response("update_task", req, 500, "IntegrityError", NoId)
                    /\ UNCHANGED tasks
    /\ Other
    /\ UNCHANGED <<users, nextUid, nextTid, pending, harness>>

delete_task(task_id) ==
    /\ IF task_id \notin DOMAIN tasks
         THEN /\ last' = Response("delete_task", task_id, 404, "Task not found", NoId)
              /\ UNCHANGED tasks
         ELSE /\ tasks' = Delete(tasks, task_id)
              /\ last' = Response("delete_task", task_id, 204, "", NoId)
    /\ Other
    /\ UNCHANGED <<users, nextUid, nextTid, pending, harness>>

\* count = db.query(Task).filter(Task.status == status).count()
RECURSIVE count(_, _, _)
count(ts, ids, status) ==
    IF ids = {} THEN 0
    ELSE LET t == CHOOSE x \in ids : TRUE
         IN  (IF ts[t].status = status THEN 1 ELSE 0) + count(ts, ids \ {t}, status)

\* for status in [0, 1, 2]
summary_statuses == <<0, 1, 2>>

\* a GROUP BY summary: only the statuses some task has
summary_group_by(ts, i, summary) ==
    [s \in {x \in {0, 1, 2} : count(ts, DOMAIN ts, x) > 0} |-> count(ts, DOMAIN ts, s)]

\* summary = {}; for status in ...: summary[status] = count
RECURSIVE summary_loop(_, _, _)
summary_loop(ts, i, summary) ==
    IF i > Len(summary_statuses) THEN summary
    ELSE summary_loop(ts, i + 1,
             Insert(summary, summary_statuses[i],
                    count(ts, DOMAIN ts, summary_statuses[i])))

task_summary_by_status ==
    /\ last' = Response("task_summary_by_status", NoId, 200, "",
                        summary_loop(tasks, 1, EmptyTable))
    /\ Other
    /\ UNCHANGED <<store, pending, harness>>

(***************************************************************************)
(* app/tests.py and run_tests of app/main.py                               *)
(***************************************************************************)
Check(cls, args, kw) == [cls |-> cls, args |-> args, kw |-> kw]

\* test_suite = [...]
test_suite ==
    << Check("UserCreateTest", <<TestName, TestEmail, TestPhone>>,
             {"expected_name", "expected_email", "expected_phone"}),
       Check("UserReadTest", <<TestEmail>>, {"expected_email"}),
       Check("UserUpdateTest", <<UpdatedName>>, {"new_name"}),
       Check("UserListTest", <<1>>, {"min_expected"}),
       Check("TaskCreateTest", <<TestTitle, 0, TestKey>>,
             {"expected_title", "expected_status", "expected_idm_key"}),
       Check("TaskReadTest", <<TestTitle>>, {"expected_title"}),
       Check("TaskUpdateTest", <<2>>, {"new_status"}),
       Check("TaskListTest", <<1>>, {"min_expected"}),
       Check("TaskSummaryTest", <<>>, {}),
       Check("TaskFilterByUserTest", <<>>, {}),
       Check("TaskDeleteTest", <<>>, {}),
       Check("UserDeleteTest", <<>>, {}) >>

\* error_test_suite = [...]
error_test_suite ==
    << Check("UserReadTest", <<"">>, {"expected_email", "expect_error", "expected_error_msg"}),
       Check("UserUpdateTest", <<"Should Fail">>, {"new_name", "expect_error", "expected_error_msg"}),
       Check("UserDeleteTest", <<>>, {"expect_error", "expected_error_msg"}),
       Check("TaskReadTest", <<"">>, {"expected_title", "expect_error", "expected_error_msg"}),
       Check("TaskUpdateTest", <<0>>, {"new_status", "expect_error", "expected_error_msg"}),
       Check("TaskDeleteTest", <<>>, {"expect_error", "expected_error_msg"}),
       Check("UserCreateTest", <<"Unique User", "unique@example.com", "555-UNIQ">>,
             {"expected_name", "expected_email", "expected_phone"}),
       Check("UserCreateTest", <<"Duplicate", "unique@example.com", "555-DUPE">>,
             {"expected_name", "expected_email", "expected_phone",
              "expect_error", "expected_error_msg"}),
       Check("UserDeleteTest", <<>>, {}),
       Check("TaskCreateTest", <<"Bad Task", 0, NULL>>,
             {"expected_title", "expected_status", "expect_error", "expected_error_msg"}) >>

\* expected_error_msg of each check of error_test_suite (NULL: none given)
expected_error_msg ==
    << "No user_id in context", "No user_id in context", "No user_id in context",
       "No task_id in context", "No task_id in context", "No task_id in context",
       NULL, "duplicate key value", NULL, "No user_id in context" >>

\* the keyword parameters of each check class's __init__
Signature(cls) ==
    CASE cls = "UserCreateTest" -> {"expected_name", "expected_email", "expected_phone"}
      [] cls = "UserReadTest" -> {"expected_email"}
      [] cls = "UserUpdateTest" -> {"new_name"}
      [] cls = "UserListTest" -> {"min_expected"}
      [] cls = "TaskCreateTest" -> {"expected_title", "expected_status", "expected_idm_key"}
      [] cls = "TaskReadTest" -> {"expected_title"}
      [] cls = "TaskUpdateTest" -> {"new_status"}
      [] cls = "TaskListTest" -> {"min_expected"}
      [] cls = "TaskSummaryTest" -> {"expected_summary"}
      [] OTHER -> {}

\* a call cls(**kw) raises TypeError on a keyword __init__ does not declare
Constructs(c) == c.kw \subseteq Signature(c.cls)

NSuccess == Len(test_suite)
NError == Len(error_test_suite)
\* pc = Built: the success loop is over, error_test_suite is built next
Built == NSuccess + 1
Last == Built + NError

Running == pc \in (1..NSuccess) \cup ((Built + 1)..Last)
Current == IF pc <= NSuccess THEN test_suite[pc] ELSE error_test_suite[pc - Built]
At(cls) == Running /\ Current.cls = cls

EmptyContext == [test_user_id |-> NoId, test_task_id |-> NoId]
Idle == Response("run_tests", NoId, 0, "", NoId)

\* BaseTest.run: the result of one check
BaseTest_run(cls, raised, error, valid) ==
    [name |-> cls,
     status |-> IF raised THEN "ERROR" ELSE IF valid THEN "PASS" ELSE "FAIL",
     error |-> IF raised THEN error ELSE NULL]

\* sum(1 for test in results if test["status"] == status)
RECURSIVE sum(_, _)
sum(rs, status) ==
    IF rs = <<>> THEN 0
    ELSE (IF Head(rs).status = status THEN 1 ELSE 0) + sum(Tail(rs), status)

\* response["errors"]
RECURSIVE collect_errors(_)
collect_errors(rs) ==
    IF rs = <<>> THEN <<>>
    ELSE (IF Head(rs).status = "ERROR"
            THEN <<[test |-> Head(rs).name, error |-> Head(rs).error]>>
            ELSE <<>>) \o collect_errors(Tail(rs))

\* the status with the failed branch tested first
run_status_failed_first(passed, failed, errors, total) ==
    IF failed > 0 THEN <<"PARTIAL: ", passed, "/", total, " PASSED">>
    ELSE IF errors > 0 THEN <<"ERROR">>
    ELSE <<"ALL TESTS PASSED">>

\* response["status"]
run_status(passed, failed, errors, total) ==
    IF errors > 0 THEN <<"ERROR">>
    ELSE IF failed > 0 THEN <<"PARTIAL: ", passed, "/", total, " PASSED">>
    ELSE <<"ALL TESTS PASSED">>

\* the response run_tests builds from its results
run_tests_response(rs) ==
    LET passed == sum(rs, "PASS")
        failed == sum(rs, "FAIL")
        errors == sum(rs, "ERROR")
        total == Len(rs)
    IN  [status |-> run_status(passed, failed, errors, total),
         tests |-> rs,
         errors |-> collect_errors(rs),
         summary |-> [total |-> total, passed |-> passed,
                      failed |-> failed, errors |-> errors]]

\* results.append(test.run(db, context)) and the loop's next turn; after the
\* last check of error_test_suite the response is built and returned
Record(result) ==
    /\ results' = Append(results, result)
    /\ IF pc = Last
         THEN /\ pc' = 0
              /\ last' = Response("run_tests", NoId, 200, "",
                                  run_tests_response(Append(results, result)))
         ELSE /\ pc' = pc + 1
              /\ last' = Idle

\* the check's session raises on every statement once a statement has failed
\* and no rollback was issued
SessionError == "PendingRollbackError"

\* GET /test up to the first check
run_tests ==
    /\ pc = 0
    /\ nextUid <= MaxUid
    /\ nextTid <= MaxTid
    /\ pc' = 1
    /\ context' = EmptyContext
    /\ results' = <<>>
    /\ broken' = FALSE
    /\ start' = <<users, tasks>>
    /\ others' = 0
    /\ last' = Idle
    /\ UNCHANGED <<store, pending>>

\* a check whose _execute raises: except Exception in BaseTest.run
Raise(cls, error, breaks) ==
    /\ Record(BaseTest_run(cls, TRUE, error, FALSE))
    /\ broken' = (broken \/ breaks)
    /\ UNCHANGED <<store, context, pending, start, others>>

\* a check whose _execute returns; _validate gives `valid`
Return(cls, valid) ==
    /\ Record(BaseTest_run(cls, FALSE, NULL, valid))
    /\ UNCHANGED <<pending, start, others, broken>>

UserCreateTest ==
    /\ At("UserCreateTest")
    /\ LET a == Current.args
           after == Insert(users, nextUid, User(a[1], a[2], a[3]))
       IN  IF broken THEN Raise("UserCreateTest", SessionError, FALSE)
           ELSE IF ~UsersOk(after)
             THEN Raise("UserCreateTest", "duplicate key value", TRUE)
             ELSE /\ nextUid <= MaxUid
                  /\ users' = after
                  /\ nextUid' = nextUid + 1
                  /\ context' = [context EXCEPT !.test_user_id = nextUid]
                  /\ Return("UserCreateTest",
                            /\ nextUid # NoId
                            /\ after[nextUid].name = a[1]
                            /\ after[nextUid].email = a[2])
                  /\ UNCHANGED <<tasks, nextTid>>

UserReadTest ==
    /\ At("UserReadTest")
    /\ LET user_id == context.test_user_id
       IN  IF user_id = NoId THEN Raise("UserReadTest", "No user_id in context", FALSE)
           ELSE IF broken THEN Raise("UserReadTest", SessionError, FALSE)
           ELSE IF user_id \notin DOMAIN users
             THEN Raise("UserReadTest", "User not found", FALSE)
             ELSE /\ Return("UserReadTest", users[user_id].email = Current.args[1])
                  /\ UNCHANGED <<store, context>>

UserUpdateTest ==
    /\ At("UserUpdateTest")
    /\ LET user_id == context.test_user_id
       IN  IF user_id = NoId THEN Raise("UserUpdateTest", "No user_id in context", FALSE)
           ELSE IF broken THEN Raise("UserUpdateTest", SessionError, FALSE)
           ELSE IF user_id \notin DOMAIN users
             THEN Raise("UserUpdateTest", "User not found", FALSE)
             ELSE /\ users' = [users EXCEPT ![user_id].name = Current.args[1]]
                  /\ Return("UserUpdateTest", users'[user_id].name = Current.args[1])
                  /\ UNCHANGED <<tasks, nextUid, nextTid, context>>

UserListTest ==
    /\ At("UserListTest")
    /\ IF broken THEN Raise("UserListTest", SessionError, FALSE)
       ELSE /\ Return("UserListTest", Cardinality(DOMAIN users) >= Current.args[1])
            /\ UNCHANGED <<store, context>>

UserDeleteTest ==
    /\ At("UserDeleteTest")
    /\ LET user_id == context.test_user_id
           deleted_count == IF user_id \in DOMAIN users THEN 1 ELSE 0
       IN  IF user_id = NoId THEN Raise("UserDeleteTest", "No user_id in context", FALSE)
           ELSE IF broken THEN Raise("UserDeleteTest", SessionError, FALSE)
           \* DELETE FROM users: the foreign key of tasks.user_id refuses it
           ELSE IF TasksOf(tasks, user_id) # {}
             THEN Raise("UserDeleteTest", "violates foreign key constraint", TRUE)
             ELSE /\ users' = Delete(users, user_id)
                  /\ Return("UserDeleteTest",
                            deleted_count = 1 /\ user_id \notin DOMAIN users')
                  /\ UNCHANGED <<tasks, nextUid, nextTid, context>>

TaskCreateTest ==
    /\ At("TaskCreateTest")
    /\ LET a == Current.args
           user_id == context.test_user_id
           after == Insert(tasks, nextTid, Task(a[1], user_id, a[2], NULL, a[3]))
       IN  IF user_id = NoId THEN Raise("TaskCreateTest", "No user_id in context", FALSE)
           ELSE IF broken THEN Raise("TaskCreateTest", SessionError, FALSE)
           ELSE IF ~TasksOk(users, after)
             THEN Raise("TaskCreateTest", "IntegrityError", TRUE)
             ELSE /\ nextTid <= MaxTid
                  /\ tasks' = after
                  /\ nextTid' = nextTid + 1
                  /\ context' = [context EXCEPT !.test_task_id = nextTid]
                  /\ Return("TaskCreateTest",
                            /\ nextTid # NoId
                            /\ after[nextTid].title = a[1]
                            /\ after[nextTid].status = a[2])
                  /\ UNCHANGED <<users, nextUid>>

TaskReadTest ==
    /\ At("TaskReadTest")
    /\ LET task_id == context.test_task_id
       IN  IF task_id = NoId THEN Raise("TaskReadTest", "No task_id in context", FALSE)
           ELSE IF broken THEN Raise("TaskReadTest", SessionError, FALSE)
           ELSE IF task_id \notin DOMAIN tasks
             THEN Raise("TaskReadTest", "Task not found", FALSE)
             ELSE /\ Return("TaskReadTest", tasks[task_id].title = Current.args[1])
                  /\ UNCHANGED <<store, context>>

TaskUpdateTest ==
    /\ At("TaskUpdateTest")
    /\ LET task_id == context.test_task_id
       IN  IF task_id = NoId THEN Raise("TaskUpdateTest", "No task_id in context", FALSE)
           ELSE IF broken THEN Raise("TaskUpdateTest", SessionError, FALSE)
           ELSE IF task_id \notin DOMAIN tasks
             THEN Raise("TaskUpdateTest", "Task not found", FALSE)
             ELSE /\ tasks' = [tasks EXCEPT ![task_id].status = Current.args[1]]
                  /\ Return("TaskUpdateTest", tasks'[task_id].status = Current.args[1])
                  /\ UNCHANGED <<users, nextUid, nextTid, context>>

TaskListTest ==
    /\ At("TaskListTest")
    /\ IF broken THEN Raise("TaskListTest", SessionError, FALSE)
       ELSE /\ Return("TaskListTest", Cardinality(DOMAIN tasks) >= Current.args[1])
            /\ UNCHANGED <<store, context>>

\* expected_summary is empty in both suites: _validate returns True
TaskSummaryTest ==
    /\ At("TaskSummaryTest")
    /\ IF broken THEN Raise("TaskSummaryTest", SessionError, FALSE)
       ELSE /\ Return("TaskSummaryTest", TRUE)
            /\ UNCHANGED <<store, context>>

\* main.py imports and runs TaskFilterByUserTest; the class is in no source
\* file. Modelled on its siblings: it lists the tasks of the user in the
\* context and passes when each listed task is owned by that user.
TaskFilterByUserTest ==
    /\ At("TaskFilterByUserTest")
    /\ LET user_id == context.test_user_id
       IN  IF user_id = NoId
             THEN Raise("TaskFilterByUserTest", "No user_id in context", FALSE)
           ELSE IF broken THEN Raise("TaskFilterByUserTest", SessionError, FALSE)
           ELSE /\ Return("TaskFilterByUserTest",
                          \A t \in TasksOf(tasks, user_id) : tasks[t].user_id = user_id)
                /\ UNCHANGED <<store, context>>

TaskDeleteTest ==
    /\ At("TaskDeleteTest")
    /\ LET task_id == context.test_task_id
           deleted_count == IF task_id \in DOMAIN tasks THEN 1 ELSE 0
       IN  IF task_id = NoId THEN Raise("TaskDeleteTest", "No task_id in context", FALSE)
           ELSE IF broken THEN Raise("TaskDeleteTest", SessionError, FALSE)
           ELSE /\ tasks' = Delete(tasks, task_id)
                /\ Return("TaskDeleteTest",
                          deleted_count = 1 /\ task_id \notin DOMAIN tasks')
                /\ UNCHANGED <<users, nextUid, nextTid, context>>

\* context.clear() and error_test_suite = [...]: a constructor call that
\* raises TypeError ends the request with no response body (HTTP 500)
run_tests_error_suite ==
    /\ pc = Built
    /\ context' = EmptyContext
    /\ IF \A i \in 1..NError : Constructs(error_test_suite[i])
         THEN /\ pc' = Built + 1
              /\ last' = Idle
              /\ UNCHANGED <<results, start, others, broken>>
         ELSE /\ pc' = 0
              /\ last' = Response("run_tests", NoId, 500, "TypeError", NoId)
              /\ results' = <<>>
              /\ start' = NoStart
              /\ others' = 0
              /\ broken' = FALSE
    /\ UNCHANGED <<store, pending>>

(***************************************************************************)
(* The service: a database that outlives the process, and the requests.   *)
(***************************************************************************)
\* Base.metadata.create_all creates the missing tables and keeps the rows of
\* the existing ones: the process starts on a store the schema allows
SeedUsers ==
    {EmptyTable,
     1 :> User("n1", OtherEmail, NULL),
     (1 :> User("n1", OtherEmail, NULL)) @@ (2 :> User("n1", ThirdEmail, TestPhone))}

SeedTasks(us) ==
    LET first == {1 :> Task(OtherTitle, 1, s, NULL, NULL) : s \in {0, 1}}
    IN  IF us = EmptyTable THEN {EmptyTable}
        ELSE {EmptyTable} \cup first \cup
             {f @@ (2 :> Task(OtherTitle, u, 2, SomeDate, OtherKey)) :
                 f \in first, u \in DOMAIN us}

Init ==
    /\ users \in SeedUsers
    /\ tasks \in SeedTasks(users)
    /\ nextUid = Cardinality(DOMAIN users) + 1
    /\ nextTid = Cardinality(DOMAIN tasks) + 1
    /\ pending = <<>>
    /\ last = Idle
    /\ pc = 0
    /\ context = EmptyContext
    /\ results = <<>>
    /\ broken = FALSE
    /\ start = NoStart
    /\ others = 0

\* UserCreate bodies of POST /users/
UserCreateBodies ==
    {User("n1", e, p) : e \in {TestEmail, OtherEmail}, p \in {NULL, TestPhone}}

\* UserUpdate bodies of PUT /users/{id}: `set` is the fields the body gives,
\* every other field keeps its default None
UserUpdate(S, name, email, phone_number) ==
    [set |-> S,
     name |-> IF "name" \in S THEN name ELSE NULL,
     email |-> IF "email" \in S THEN email ELSE NULL,
     phone_number |-> IF "phone_number" \in S THEN phone_number ELSE NULL]

UserUpdateBodies ==
    {UserUpdate(S, "n2", e, TestPhone) :
        S \in {{"name"}, {"email"}, {"phone_number"}},
        e \in {TestEmail, OtherEmail}}

\* JSON bodies of POST /tasks/
TaskCreateRequests ==
    [title : {OtherTitle}, status : {0}, due_date : {NULL},
     user_id : 1..MaxUid, idm_key : {NULL, OtherKey}]

\* skip, limit of GET /tasks/
Pages == {<<0, 100>>, <<1, 100>>, <<0, 1>>}

\* TaskUpdate bodies of PUT /tasks/{id}
TaskUpdate(S, title, status, due_date) ==
    [set |-> S,
     title |-> IF "title" \in S THEN title ELSE NULL,
     status |-> IF "status" \in S THEN status ELSE 0,
     due_date |-> IF "due_date" \in S THEN due_date ELSE NULL]

TaskUpdateBodies ==
    {TaskUpdate(S, t, st, SomeDate) :
        S \in {{"status"}, {"title"}, {"due_date"}, {"title", "status"}},
        t \in {"t2", NULL}, st \in {1, 2}}

\* the requests to the users router, over the tasks the store holds
NextUsers ==
    \/ \E user \in UserCreateBodies : create_user(user)
    \/ create_user_commit
    \/ \E user_id \in 1..MaxUid, user \in UserUpdateBodies : update_user(user_id, user)
    \/ \E user_id \in 1..MaxUid : delete_user(user_id)

SpecUsers == Init /\ [][NextUsers]_vars

\* the requests to the tasks router, over the users the store holds
NextTasks ==
    \/ \E json \in TaskCreateRequests : create_task(json)
    \/ \E page \in Pages, user_id \in 0..MaxUid : read_tasks(page[1], page[2], user_id)
    \/ \E task_id \in 1..MaxTid, task \in TaskUpdateBodies : update_task(task_id, task)
    \/ \E task_id \in 1..MaxTid : delete_task(task_id)
    \/ task_summary_by_status

SpecTasks == Init /\ [][NextTasks]_vars

\* GET /test, and the requests of other clients that change what its checks see
\* (one create-user request of another client in flight at a time)
NextSelfTest ==
    \/ run_tests
    \/ UserCreateTest
    \/ UserReadTest
    \/ UserUpdateTest
    \/ UserListTest
    \/ TaskCreateTest
    \/ TaskReadTest
    \/ TaskUpdateTest
    \/ TaskListTest
    \/ TaskSummaryTest
    \/ TaskFilterByUserTest
    \/ TaskDeleteTest
    \/ UserDeleteTest
    \/ run_tests_error_suite
    \/ /\ pending = <<>>
       /\ \E e \in {TestEmail, OtherEmail} : create_user(User("n1", e, NULL))
    \/ create_user_commit
    \/ \E user_id \in 1..MaxUid : update_user(user_id, UserUpdate({"email"}, NULL, ThirdEmail, NULL))
    \/ \E user_id \in 1..MaxUid : delete_user(user_id)
    \/ \E task_id \in 1..MaxTid :
          update_task(task_id, TaskUpdate({"title", "status"}, "t2", 1, NULL))
    \/ \E task_id \in 1..MaxTid : delete_task(task_id)

SpecSelfTest == Init /\ [][NextSelfTest]_vars

\* the summary block of run_tests, applied to the result list of any run
ResultLists ==
    LET outcomes == {BaseTest_run("check", FALSE, NULL, TRUE),
                     BaseTest_run("check", FALSE, NULL, FALSE),
                     BaseTest_run("check", TRUE, "error", FALSE)}
    IN  UNION {[1..n -> outcomes] : n \in 0..MaxResults}

InitSummary ==
    /\ users = EmptyTable
    /\ tasks = EmptyTable
    /\ nextUid = 1
    /\ nextTid = 1
    /\ pending = <<>>
    /\ last = Idle
    /\ pc = 0
    /\ context = EmptyContext
    /\ results \in ResultLists
    /\ broken = FALSE
    /\ start = NoStart
    /\ others = 0

run_tests_summary ==
    /\ last = Idle
    /\ last' = Response("run_tests", NoId, 200, "", run_tests_response(results))
    /\ UNCHANGED <<store, pending, harness, start, others>>

SpecSummary == InitSummary /\ [][run_tests_summary]_vars

(***************************************************************************)
(* Properties of the tasks router.                                         *)
(***************************************************************************)
TaskFields == {"title", "user_id", "status", "due_date", "idm_key"}

\* C1: a create-task request for a stored user that gives an idempotency key
\* k is answered 201 with the identifier of the one stored task whose idm_key
\* is k (so two such requests return the same identifier and leave one row).
C1_IdempotentCreate ==
    (/\ last.op = "create_task"
     /\ last.req.user_id \in DOMAIN users
     /\ last.req.idm_key # NULL)
    => /\ last.status = 201
       /\ TaskByKey(tasks, last.req.idm_key) = {last.body}

\* C3: a create-task request whose user_id is no stored user is answered 404,
\* with or without an idempotency key, and leaves the tasks table as it was.
C3_CreateTaskUnknownUser ==
    [][(last'.op = "create_task" /\ last'.req.user_id \notin DOMAIN users)
         => (last'.status = 404 /\ tasks' = tasks /\ nextTid' = nextTid)]_vars

C3_Witness ==
    /\ last.op = "create_task"
    /\ last.status = 404
    /\ last.req.idm_key # NULL
    /\ last.req.user_id \notin DOMAIN users
    /\ tasks # EmptyTable

\* C5: an update of a stored task that gives only status is answered 200; an
\* update answered 200 sets exactly the fields the body gives: every other
\* field of that task and every other task are as before, and a re-fetch
\* shows the row.
C5_PartialUpdate ==
    [][(last'.op = "update_task" /\ last'.req.id \in DOMAIN tasks)
         => LET id == last'.req.id
                body == last'.req.body
            IN  /\ body.set = {"status"} => last'.status = 200
                /\ last'.status # 200 => tasks' = tasks
                /\ last'.status = 200 =>
                      /\ DOMAIN tasks' = DOMAIN tasks
                      /\ \A t \in DOMAIN tasks \ {id} : tasks'[t] = tasks[t]
                      /\ \A f \in TaskFields :
                            tasks'[id][f] = IF f \in body.set THEN body[f]
                                            ELSE tasks[id][f]
                      /\ read_task(tasks', id).status = 200
                      /\ read_task(tasks', id).body = tasks'[id]]_vars

C5_Witness ==
    /\ last.op = "update_task"
    /\ last.status = 200
    /\ last.req.body.set = {"status"}
    /\ last.req.body.status = 2
    /\ tasks[last.req.id].status = 2
    /\ tasks[last.req.id].title = OtherTitle
    /\ Cardinality(DOMAIN tasks) = 2

\* C6: in every reachable state the status summary has exactly the keys 0, 1
\* and 2, and its value for s is the number of stored tasks with status s.
C6_Summary ==
    LET summary == summary_loop(tasks, 1, EmptyTable)
    IN  /\ DOMAIN summary = {0, 1, 2}
        /\ \A s \in {0, 1, 2} :
              summary[s] = Cardinality({t \in DOMAIN tasks : tasks[t].status = s})
        /\ last.op = "task_summary_by_status" => last.body = summary

C6_Witness ==
    /\ last.op = "task_summary_by_status"
    /\ last.body[0] = 0
    /\ last.body[1] = 1
    /\ last.body[2] = 1

\* C7: a task list asked for with a user_id holds only tasks of that user, and
\* with skip 0 and a limit above the row count all of them; asked for without
\* one it holds the tasks of every user.
C7_FilterByUser ==
    (last.op = "read_tasks" /\ last.status = 200)
    => LET whole == last.req.skip = 0 /\ last.req.limit > Cardinality(DOMAIN tasks)
       IN  IF last.req.user_id # NoId
             THEN /\ \A t \in last.body : tasks[t].user_id = last.req.user_id
                  /\ whole => last.body = TasksOf(tasks, last.req.user_id)
             ELSE whole => last.body = DOMAIN tasks

(***************************************************************************)
(* Properties of the users router.                                         *)
(***************************************************************************)
\* C2: a create-user request whose email a stored user has is answered 400,
\* and the users table is after it as it was before.
C2_DuplicateEmail ==
    [][(/\ last'.op = "create_user"
        /\ \E u \in DOMAIN users : users[u].email = last'.req.email)
         => /\ last'.status = 400
            /\ users' = users
            /\ pending' = pending]_vars

C2_Witness ==
    /\ last.op = "create_user"
    /\ last.status = 400
    /\ \E u \in DOMAIN users : users[u].email = last.req.email

\* C4: deleting a stored user id is answered 204 and removes the user, also
\* when the user owns tasks; deleting the same id again right after is
\* answered 404.
C4_DeleteTwice ==
    [][/\ (last'.op = "delete_user" /\ last'.req \in DOMAIN users)
            => (last'.status = 204 /\ last'.req \notin DOMAIN users')
       /\ (/\ last'.op = "delete_user"
           /\ last.op = "delete_user"
           /\ last.status = 204
           /\ last.req = last'.req)
            => last'.status = 404]_vars

(***************************************************************************)
(* Properties of the self-test run.                                        *)
(***************************************************************************)
\* C8: a self-test run ends with a report that holds one result per check of
\* both suites, in list order, whatever the outcomes of the checks.
C8_EveryCheckReported ==
    (last.op = "run_tests" /\ last.status # 0)
    => /\ last.status = 200
       /\ Len(last.body.tests) = NSuccess + NError
       /\ \A i \in 1..NSuccess : last.body.tests[i].name = test_suite[i].cls
       /\ \A i \in 1..NError :
             last.body.tests[NSuccess + i].name = error_test_suite[i].cls

\* C9: the report's counts are the numbers of PASS, FAIL and ERROR results,
\* they add up to total, the number of results; the status is ALL TESTS PASSED
\* exactly when failed and errors are 0, ERROR when errors is above 0, and the
\* PARTIAL label with passed/total otherwise.
Number(status) == Cardinality({i \in 1..Len(results) : results[i].status = status})

C9_Report ==
    (last.op = "run_tests" /\ last.status = 200)
    => LET report == last.body
           n == report.summary
       IN  /\ n.total = Len(results)
           /\ n.passed = Number("PASS")
           /\ n.failed = Number("FAIL")
           /\ n.errors = Number("ERROR")
           /\ n.passed + n.failed + n.errors = n.total
           /\ (report.status = <<"ALL TESTS PASSED">>) <=> (n.failed = 0 /\ n.errors = 0)
           /\ n.errors > 0 => report.status = <<"ERROR">>
           /\ (n.errors = 0 /\ n.failed > 0)
                 => report.status = <<"PARTIAL: ", n.passed, "/", n.total, " PASSED">>

C9_Witness ==
    /\ last.op = "run_tests"
    /\ last.status = 200
    /\ last.body.summary.passed = 2
    /\ last.body.summary.failed = 1
    /\ last.body.summary.errors = 1
    /\ last.body.status = <<"ERROR">>

\* a run no other request fell into, begun on a store with no user of the
\* test email and no task of the test key
Undisturbed == pc \in 1..Built /\ others = 0

FreshStart ==
    /\ UserByEmail(start[1], TestEmail) = {}
    /\ TaskByKey(start[2], TestKey) = {}

Completed(ts) == Cardinality({t \in DOMAIN ts : ts[t].status = 2})

SuccessSuitePasses ==
    /\ Len(results) = NSuccess
    /\ \A i \in 1..NSuccess : results[i].status = "PASS"
    /\ read_task(tasks, context.test_task_id).status = 404
    /\ read_user(users, context.test_user_id).status = 404
    /\ users = start[1]
    /\ tasks = start[2]

NoTestPhone == \A u \in DOMAIN start[1] : start[1][u].phone_number # TestPhone

C11_ErrorSuite ==
    (last.op = "run_tests" /\ last.status # 0)
    => /\ last.status = 200
       /\ Len(last.body.tests) = NSuccess + NError
       /\ \A i \in 1..NError :
             expected_error_msg[i] # NULL
             => /\ last.body.tests[NSuccess + i].status = "ERROR"
                /\ last.body.tests[NSuccess + i].error = expected_error_msg[i]
       /\ last.body.tests[NSuccess + NError].name = "TaskCreateTest"
       /\ last.body.tests[NSuccess + NError].error = "No user_id in context"

\* C12: no two stored users ever share an email, and a create-user commit or
\* an update-user request that would give two stored users the same email is
\* answered 400 and leaves the users table as it was.
SharesEmail(us) == \E u, v \in DOMAIN us : u # v /\ us[u].email = us[v].email

WouldShareEmail ==
    \/ /\ last'.op = "create_user_commit"
       /\ existing_user(users, last'.req.email)
    \/ /\ last'.op = "update_user"
       /\ last'.req.id \in DOMAIN users
       /\ "email" \in last'.req.body.set
       /\ \E v \in DOMAIN users \ {last'.req.id} :
             users[v].email = last'.req.body.email

C12_UniqueEmail ==
    /\ [](~SharesEmail(users))
    /\ [][WouldShareEmail => (last'.status = 400 /\ users' = users)]_vars

(***************************************************************************)
(* Properties of the store.                                                *)
(***************************************************************************)
\* C13: in every reachable state the user_id of every stored task is the id
\* of a stored user; a delete-user request that was answered 204 left no task
\* of that user behind.
C13_ReferentialIntegrity ==
    /\ \A t \in DOMAIN tasks : tasks[t].user_id \in DOMAIN users
    /\ (last.op = "delete_user" /\ last.status = 204)
          => /\ last.req \notin DOMAIN users
             /\ TasksOf(tasks, last.req) = {}

\* another client asks to delete the self-test's user while the user owns the
\* self-test's task: user and task are both still stored
C13_Witness ==
    /\ pc \in 1..NSuccess
    /\ last.op = "delete_user"
    /\ last.req = context.test_user_id
    /\ last.req \in DOMAIN users
    /\ context.test_task_id \in TasksOf(tasks, last.req)

====
